---- MODULE Spec2Model ----
(***************************************************************************)
(* The action-routing layer of oncallninja_integrations                    *)
(* (src/oncallninja_integrations/action_router.py): the @action decorator  *)
(* that classifies a method's parameters, the registry built by            *)
(* ActionRouter.__init__, and ActionRouter.execute_action; and the clients *)
(* built on it: the code-hosting clients (code_client.py, bitbucket.py,    *)
(* github.py), the Kibana client (kibana.py) and the GitHub token manager  *)
(* (github_token_manager.py), each under a specification of its own.       *)
(*                                                                         *)
(* Python values are modelled as records ([t |-> "NoneType"], [t |->       *)
(* "int", v |-> n]); messages are real strings built with \o as the        *)
(* f-strings of the source build them.                                     *)
(***************************************************************************)
EXTENDS Integers, Sequences, FiniteSets, TLC

VARIABLES
    self_attrs, \* the attributes the client instance was constructed with
    _actions,   \* ActionRouter._actions: ordered dict, a sequence of <<name, wrapper>>
    pc,         \* "idle": no call in progress; "returned": a call has completed
    request,    \* the call observed last: [action, params, behaviour], or NoRequest
    params,     \* the caller's params mapping as execute_action left it
    result,     \* the value execute_action returned, or NoResult
    raised,     \* the exception that left execute_action, or NoException
    calls,      \* the invocations of registered methods made by the call
    supplied,   \* what the caller itself put in the params mapping it holds
    listing,    \* the value available_actions returned last, or NoListing
    th,         \* concurrent calls: each call's arguments, position and outcome
    frame,      \* concurrent calls: the local variables of each call's frame
    world       \* what lies outside the router: the process (working directory),
                \* the file system, the remote services and what was sent to them

vars == <<self_attrs, _actions, pc, request, params, result, raised, calls,
          supplied, listing, th, frame, world>>

----------------------------------------------------------------------------
\* Bounds of the model

\* the largest number of parameters (receiver excluded) of a modelled method
MaxParams == 2

----------------------------------------------------------------------------
\* Python values

None == [t |-> "NoneType"]

PyInt(n) == [t |-> "int", v |-> n]

\* inspect.Parameter.empty: the marker of "no default" / "no annotation"
Empty == [t |-> "empty"]

\* the values a caller puts in params
Values == {None, PyInt(1)}


----------------------------------------------------------------------------
\* Exceptions.  cls is the concrete class; IsException is isinstance(e, Exception).

Exc(cls, arg) == [cls |-> cls, arg |-> arg]

ExceptionClasses == {"Exception", "KeyError", "TypeError"}

IsException(e) == e.cls \in ExceptionClasses

\* str(e): the single argument, except KeyError which gives its repr
ExcStr(e) ==
    IF e.cls = "KeyError" THEN "'" \o e.arg \o "'" ELSE e.arg

NoException == [cls |-> "none"]

----------------------------------------------------------------------------
\* Method signatures as inspect.signature reports them (receiver already
\* dropped, see AllParamsOf)

ParamNames == <<"a", "b", "c", "d">>

\* the annotation shapes found on @action methods in the repository:
\* none, a plain class, Optional[X], List[X] / Dict, Union[X, Y]
Annotations ==
    {"empty", "str", "Optional[str]", "List[str]", "Dict", "Union[str, datetime]"}

\* a declared default (limit: Optional[int] = 10) or none
Defaults == {Empty, PyInt(10)}

Param(n, ann, dflt) == [name |-> n, annotation |-> ann, default |-> dflt]

\* Python accepts a signature only if no parameter without a default follows
\* one with a default
ValidSignature(sig) ==
    \A i \in 1..Len(sig) : \A j \in 1..Len(sig) :
        (i < j /\ sig[i].default # Empty) => sig[j].default # Empty

SignaturesOfLen(n) ==
    { sig \in [1..n -> [name : {ParamNames[i] : i \in 1..MaxParams},
                        annotation : Annotations, default : Defaults]] :
        /\ \A i \in 1..n : sig[i].name = ParamNames[i]
        /\ ValidSignature(sig) }

Signatures == UNION { SignaturesOfLen(n) : n \in 0..MaxParams }

----------------------------------------------------------------------------
\* The @action decorator

\* typing.get_origin(annotation): None for a missing annotation and for a plain
\* class, typing.Union for Optional[X] and for Union[X, Y], the runtime class
\* for a subscripted or bare generic alias
get_origin(annotation) ==
    CASE annotation = "Optional[str]" -> "typing.Union"
      [] annotation = "Union[str, datetime]" -> "typing.Union"
      [] annotation = "List[str]" -> "list"
      [] annotation = "Dict" -> "dict"
      [] OTHER -> "None"

\* the set literal {Optional, None} the decorator tests origins against
OptionalOrNone == {"typing.Optional", "None"}

Names(ps) == [i \in 1..Len(ps) |-> ps[i].name]

\* wrapper._all_params: every parameter after the receiver
AllParamsOf(sig) == Names(sig)

IsRequiredParam(param) ==
    param.default = Empty /\ get_origin(param.annotation) \in OptionalOrNone

\* wrapper._required_params
RequiredParamsOf(sig) == Names(SelectSeq(sig, IsRequiredParam))

\* a parameter with a default counted as optional as well
IsOptionalParam_OrDefault(param) ==
    get_origin(param.annotation) \notin OptionalOrNone \/ param.default # Empty

IsOptionalParam(param) ==
    get_origin(param.annotation) \notin OptionalOrNone

\* wrapper._optional_params
OptionalParamsOf(sig) == Names(SelectSeq(sig, IsOptionalParam))

\* a function as the decorator sees it: its __name__ and its signature
Func(fname, sig) == [__name__ |-> fname, sig |-> sig]

\* action(name, description)(func): the wrapper with its marker attributes.
\* name = "" stands for name=None ("name or func.__name__").
action(name, description, func) ==
    [ _is_action       |-> TRUE,
      _action_name     |-> IF name = "" THEN func.__name__ ELSE name,
      _description     |-> description,
      _all_params      |-> AllParamsOf(func.sig),
      _required_params |-> RequiredParamsOf(func.sig),
      _optional_params |-> OptionalParamsOf(func.sig),
      func             |-> func ]

----------------------------------------------------------------------------
\* Python dict as an insertion-ordered sequence of <<key, value>> pairs

DictKeys(d) == { d[i][1] : i \in 1..Len(d) }

DictGet(d, k) == d[CHOOSE i \in 1..Len(d) : d[i][1] = k][2]

\* an existing key keeps its first value (setdefault)
DictSet_KeepsFirst(d, k, v) ==
    IF k \in DictKeys(d) THEN d ELSE Append(d, <<k, v>>)

\* d[k] = v: in place for an existing key, appended otherwise
DictSet(d, k, v) ==
    IF k \in DictKeys(d)
    THEN [i \in 1..Len(d) |-> IF d[i][1] = k THEN <<k, v>> ELSE d[i]]
    ELSE Append(d, <<k, v>>)

----------------------------------------------------------------------------
\* Registry construction

\* the attributes of a client instance in dir() order (sorted by attribute
\* name): <<attribute name, attribute>>; a plain attribute has no marker
PlainAttr == [_is_action |-> FALSE]

RECURSIVE RegisterFrom(_, _, _)
RegisterFrom(attrs, i, acc) ==
    IF i > Len(attrs) THEN acc
    ELSE LET attr == attrs[i][2] IN
         RegisterFrom(attrs, i + 1,
                      IF attr._is_action
                      THEN DictSet(acc, attr._action_name, attr)
                      ELSE acc)

\* ActionRouter._register_actions over the instance's attributes
_register_actions(attrs) == RegisterFrom(attrs, 1, <<>>)

\* the clients of the model: a method f with any signature, an unmarked
\* attribute, and a parameterless action g
ClientAttrs(sig) ==
    << <<"f", action("", "does f", Func("f", sig))>>,
       <<"g", action("", "does g", Func("g", <<>>))>>,
       <<"token", PlainAttr>> >>

----------------------------------------------------------------------------
\* The underlying methods.  What a method does once called is outside the
\* router: it returns some value or raises some exception.

Return(v) == [kind |-> "return", value |-> v]

Raise(e) == [kind |-> "raise", exc |-> e]

\* Exception and KeyError derive from Exception; KeyboardInterrupt derives
\* from BaseException only
MethodExceptions ==
    {Exc("Exception", "boom"), Exc("KeyError", "id"), Exc("KeyboardInterrupt", "")}

Behaviours ==
    {Return(None), Return(PyInt(3))} \cup {Raise(e) : e \in MethodExceptions}

NotBound == [t |-> "unbound"]

\* Python's binding of keyword arguments to func's parameters: a keyword that
\* func does not declare, or a parameter with neither an argument nor a
\* default, is a TypeError raised before func's body runs
UnexpectedKeywords(func, kwargs) ==
    (DOMAIN kwargs) \ { func.sig[i].name : i \in 1..Len(func.sig) }

UnboundParams(func, kwargs) ==
    { i \in 1..Len(func.sig) :
        func.sig[i].name \notin DOMAIN kwargs /\ func.sig[i].default = Empty }

BoundArguments(func, kwargs) ==
    [n \in { func.sig[i].name : i \in 1..Len(func.sig) } |->
        IF n \in DOMAIN kwargs THEN kwargs[n]
        ELSE func.sig[CHOOSE i \in 1..Len(func.sig) : func.sig[i].name = n].default ]

\* wrapper(**kwargs), i.e. func(self, **kwargs): the record of the invocation
\* and its outcome (a returned value or a raised exception)
CallMethod(method, kwargs, behaviour) ==
    LET func == method.func
        unexpected == UnexpectedKeywords(func, kwargs)
        unbound == UnboundParams(func, kwargs)
    IN  IF unexpected # {}
        THEN [ call |-> [method |-> func.__name__, kwargs |-> kwargs, bound |-> NotBound],
               outcome |-> Raise(Exc("TypeError",
                   func.__name__ \o "() got an unexpected keyword argument '"
                   \o (CHOOSE k \in unexpected : TRUE) \o "'")) ]
        ELSE IF unbound # {}
        THEN [ call |-> [method |-> func.__name__, kwargs |-> kwargs, bound |-> NotBound],
               outcome |-> Raise(Exc("TypeError",
                   func.__name__ \o "() missing required positional argument: '"
                   \o func.sig[CHOOSE i \in unbound : \A j \in unbound : i <= j].name
                   \o "'")) ]
        ELSE [ call |-> [method |-> func.__name__, kwargs |-> kwargs,
                         bound |-> BoundArguments(func, kwargs)],
               outcome |-> behaviour ]

----------------------------------------------------------------------------
\* ActionRouter.execute_action

\* ', '.join(names)
RECURSIVE Join(_)
Join(names) ==
    IF Len(names) = 0 THEN ""
    ELSE IF Len(names) = 1 THEN names[1]
    ELSE names[1] \o ", " \o Join(Tail(names))

InSeq(x, s) == \E i \in 1..Len(s) : s[i] = x

ErrorResult(message) == [status |-> "error", message |-> message]

\* the method's return value is lost
SuccessResult_DropsValue(data) == [status |-> "success", data |-> None]

SuccessResult(data) == [status |-> "success", data |-> data]

\* the message without the name that was asked for
UnknownActionResult_NoName(action_name) == ErrorResult("Unknown action")

UnknownActionResult(action_name) == ErrorResult("Unknown action: " \o action_name)

\* [param for param in action_method._optional_params if param not in params]
MissingOptionalParams(action_method, p) ==
    SelectSeq(action_method._optional_params, LAMBDA param : param \notin DOMAIN p)

\* params is replaced by the placeholders: the caller's own keys are lost
FillOptional_DropsOthers(p, missing_optional_params) ==
    [k \in {missing_optional_params[i] : i \in 1..Len(missing_optional_params)} |-> None]

\* no placeholder is inserted
FillOptional_Skips(p, missing_optional_params) == p

\* for p in missing_optional_params: params[p] = None
FillOptional(p, missing_optional_params) ==
    [k \in (DOMAIN p) \cup {missing_optional_params[i] : i \in 1..Len(missing_optional_params)} |->
        IF InSeq(k, missing_optional_params) THEN None ELSE p[k]]

\* only the first missing required parameter is kept
MissingParams_FirstOnly(action_method, p) ==
    LET all == SelectSeq(action_method._required_params,
                         LAMBDA param : param \notin DOMAIN p)
    IN  IF Len(all) = 0 THEN all ELSE <<all[1]>>

\* [param for param in required_params if param not in params]
MissingParams(action_method, p) ==
    SelectSeq(action_method._required_params, LAMBDA param : param \notin DOMAIN p)

MissingParamsResult(action_name, missing_params) ==
    ErrorResult("Missing required parameters for " \o action_name \o ": "
                \o Join(missing_params))

\* params forwarded whole: action_method(**params)
CallArguments_Unfiltered(action_method, p) == p

\* {k: params[k] for k in params if k in action_method._all_params}
CallArguments(action_method, p) ==
    [k \in {k \in DOMAIN p : InSeq(k, action_method._all_params)} |-> p[k]]

\* a handler for KeyError alone
Caught_KeyErrorOnly(e) == e.cls = "KeyError"

\* "except Exception as e": the handler takes e iff e is an instance of Exception
Caught(e) == IsException(e)

\* the exception's first argument in place of str(e)
ExceptionResult_FirstArg(e) == ErrorResult(e.arg)

\* return {"status": "error", "message": str(e)}
ExceptionResult(e) == ErrorResult(ExcStr(e))

NoResult == [status |-> "none"]

\* whether the caller's params is a mapping (None stands for any other value)
IsMapping(p) == p # None

\* `param not in params` and `for k in params` on a params that is no mapping:
\* the membership test runs only when the action has an optional or a required
\* parameter, the iteration at the call runs otherwise
NotIterableError(action_method) ==
    IF Len(action_method._optional_params) > 0 \/ Len(action_method._required_params) > 0
    THEN Exc("TypeError", "argument of type 'NoneType' is not iterable")
    ELSE Exc("TypeError", "'NoneType' object is not iterable")

\* the call is made a second time after an exception
Handle_RetriesOnce(e, p, made) ==
    IF IsException(e)
    THEN [params |-> p, result |-> ErrorResult(ExcStr(e)), raised |-> NoException,
          calls |-> made \o made]
    ELSE [params |-> p, result |-> NoResult, raised |-> e, calls |-> made \o made]

\* the except clause applied to an exception e raised inside the try block
Handle(e, p, made) ==
    IF Caught(e)
    THEN [params |-> p, result |-> ExceptionResult(e), raised |-> NoException,
          calls |-> made]
    ELSE [params |-> p, result |-> NoResult, raised |-> e, calls |-> made]

\* The whole of execute_action(action, params) when the method behaves as
\* `behaviour`: what it leaves in params, what it returns or lets escape, and
\* the method invocations it made.
execute_action(actions, action_name, p, behaviour) ==
    IF action_name \notin DictKeys(actions)
    THEN [params |-> p, result |-> UnknownActionResult(action_name),
          raised |-> NoException, calls |-> <<>>]
    ELSE IF ~IsMapping(p)
    THEN Handle(NotIterableError(DictGet(actions, action_name)), p, <<>>)
    ELSE
      LET action_method == DictGet(actions, action_name)
          filled == FillOptional(p, MissingOptionalParams(action_method, p))
          missing_params == MissingParams(action_method, filled)
      IN  IF Len(missing_params) > 0
          THEN [params |-> filled,
                result |-> MissingParamsResult(action_name, missing_params),
                raised |-> NoException, calls |-> <<>>]
          ELSE
            LET r == CallMethod(action_method, CallArguments(action_method, filled),
                                behaviour)
            IN  IF r.outcome.kind = "return"
                THEN [params |-> filled, result |-> SuccessResult(r.outcome.value),
                      raised |-> NoException, calls |-> <<r.call>>]
                ELSE Handle(r.outcome.exc, filled, <<r.call>>)

----------------------------------------------------------------------------
\* The state machine

NoRequest == [action |-> "", params |-> <<>>, behaviour |-> Return(None)]

\* the keys a caller may put in params: parameter names and a foreign key
Keys == {ParamNames[i] : i \in 1..MaxParams} \cup {"x"}

\* a params mapping: any set of keys, holding None or a number
ParamMaps == { [k \in S |-> v] : S \in SUBSET Keys, v \in Values }

\* the action names a caller may ask for: the registered ones and others
ActionNames == {"f", "g", "h"}

NoListing == <<"none">>

\* no concurrent call is under way
NoThreads == <<>>

\* the router itself touches neither the process nor a remote service
NoWorld == <<>>

\* what an operation of a client leaves alone when it is called directly and
\* not through execute_action: the registry and the router's call
RouterUnchanged ==
    UNCHANGED <<self_attrs, _actions, pc, request, params, result, raised,
                calls, supplied, listing>>

\* the action is taken out of the registry when it is looked up
RegistryAfterExecute_Pops(actions, action_name, p) ==
    SelectSeq(actions, LAMBDA item : item[1] # action_name)

\* what execute_action leaves in self._actions: it assigns neither to the
\* registry nor to an attribute of a registered wrapper
RegistryAfterExecute(actions, action_name, p) == actions

\* after ActionRouter.__init__ of a client
Init ==
    /\ \E sig \in Signatures : self_attrs = ClientAttrs(sig)
    /\ _actions = _register_actions(self_attrs)
    /\ supplied = <<>>
    /\ listing = NoListing
    /\ th = NoThreads
    /\ frame = NoThreads
    /\ world = NoWorld
    /\ pc = "idle"
    /\ request = NoRequest
    /\ params = <<>>
    /\ result = NoResult
    /\ raised = NoException
    /\ calls = <<>>

\* one call of execute_action, start to end
ExecuteAction ==
    /\ pc = "idle"
    /\ \E action_name \in ActionNames, p \in ParamMaps \cup {None},
          behaviour \in Behaviours :
         LET out == execute_action(_actions, action_name, p, behaviour) IN
         /\ request' = [action |-> action_name, params |-> p, behaviour |-> behaviour]
         /\ params' = out.params
         /\ result' = out.result
         /\ raised' = out.raised
         /\ calls' = out.calls
         /\ _actions' = RegistryAfterExecute(_actions, action_name, p)
    /\ pc' = "returned"
    /\ UNCHANGED <<self_attrs, supplied, listing, th, frame, world>>

\* the caller takes the outcome; the request and its result are not retained
CallerContinues ==
    /\ pc = "returned"
    /\ pc' = "idle"
    /\ request' = NoRequest
    /\ params' = <<>>
    /\ result' = NoResult
    /\ raised' = NoException
    /\ calls' = <<>>
    /\ UNCHANGED <<self_attrs, _actions, supplied, listing, th, frame, world>>

Next == ExecuteAction \/ CallerContinues

Spec == Init /\ [][Next]_vars

----------------------------------------------------------------------------
\* ActionRouter.available_actions

\* params_info: {"name": param} for a name of _required_params,
\* {"name": param, "optional": True} for any other
ParamsInfo(method) ==
    [i \in 1..Len(method._all_params) |->
        IF InSeq(method._all_params[i], method._required_params)
        THEN [name |-> method._all_params[i]]
        ELSE [name |-> method._all_params[i], optional |-> TRUE]]

\* one element of the result: the single-key dict {name: {...}} as <<name, {...}>>
ActionEntry(name, method) ==
    IF Len(ParamsInfo(method)) > 0
    THEN <<name, [description |-> method._description, params |-> ParamsInfo(method)]>>
    ELSE <<name, [description |-> method._description]>>

\* the list available_actions returns, in the registry's insertion order
available_actions(actions) ==
    [i \in 1..Len(actions) |-> ActionEntry(actions[i][1], actions[i][2])]

\* the items are consumed while they are listed
RegistryAfterListing_Drains(actions) == <<>>

\* what available_actions leaves in self._actions: it only reads
RegistryAfterListing(actions) == actions

----------------------------------------------------------------------------
\* Sequences of calls on one instance.  The caller holds one params mapping;
\* it may build a new one before a call or pass the one it passed before.

\* two marked attributes f1 and f2 registered under the names n1 and n2
SeqClientAttrs(n1, sig1, n2, sig2) ==
    << <<"f1", action(n1, "does f1", Func("f1", sig1))>>,
       <<"f2", action(n2, "does f2", Func("f2", sig2))>>,
       <<"token", PlainAttr>> >>

SeqSignatures1 == SignaturesOfLen(0) \cup SignaturesOfLen(1)

\* no parameter, a required one, a plain one with a default
SeqSignatures2 ==
    {<<>>, <<Param("a", "str", Empty)>>, <<Param("a", "str", PyInt(10))>>}

SeqParamMaps == { [k \in S |-> PyInt(1)] : S \in SUBSET {"a", "x"} }

SeqBehaviours == {Return(PyInt(3)), Raise(Exc("Exception", "boom"))}

SeqInit ==
    /\ \E n1 \in {"f", "g"}, n2 \in {"f", "g"},
          sig1 \in SeqSignatures1, sig2 \in SeqSignatures2 :
          self_attrs = SeqClientAttrs(n1, sig1, n2, sig2)
    /\ _actions = _register_actions(self_attrs)
    /\ supplied = <<>>
    /\ listing = NoListing
    /\ th = NoThreads
    /\ frame = NoThreads
    /\ world = NoWorld
    /\ pc = "idle"
    /\ request = NoRequest
    /\ params = <<>>
    /\ result = NoResult
    /\ raised = NoException
    /\ calls = <<>>

\* the caller makes a new params mapping for its next call
CallerBuildsParams ==
    /\ \E p \in SeqParamMaps :
         /\ params' = p
         /\ supplied' = p
    /\ pc' = "idle"
    /\ request' = NoRequest
    /\ result' = NoResult
    /\ raised' = NoException
    /\ calls' = <<>>
    /\ UNCHANGED <<self_attrs, _actions, listing, th, frame, world>>

\* execute_action(action_name, params) on the mapping the caller holds, be it
\* new or the one an earlier call was given
SeqExecuteAction ==
    /\ \E action_name \in ActionNames, behaviour \in SeqBehaviours :
         LET out == execute_action(_actions, action_name, params, behaviour) IN
         /\ request' = [action |-> action_name, params |-> params,
                        behaviour |-> behaviour]
         /\ params' = out.params
         /\ result' = out.result
         /\ raised' = out.raised
         /\ calls' = out.calls
         /\ _actions' = RegistryAfterExecute(_actions, action_name, params)
    /\ pc' = "returned"
    /\ UNCHANGED <<self_attrs, supplied, listing, th, frame, world>>

\* available_actions()
SeqAvailableActions ==
    /\ listing' = available_actions(_actions)
    /\ _actions' = RegistryAfterListing(_actions)
    /\ UNCHANGED <<self_attrs, pc, request, params, result, raised, calls,
                   supplied, th, frame, world>>

SeqNext == CallerBuildsParams \/ SeqExecuteAction \/ SeqAvailableActions

SpecSeq == SeqInit /\ [][SeqNext]_vars

----------------------------------------------------------------------------
\* The example registry: a client whose only action is
\*     @action(description="adds")
\*     def add(self, a: int, b: int = 0): return a + b

AddSig == <<Param("a", "int", Empty), Param("b", "int", PyInt(0))>>

AddClientAttrs ==
    << <<"add", action("", "adds", Func("add", AddSig))>>,
       <<"token", PlainAttr>> >>

\* the body of add on its bound arguments: int + int, and a TypeError when an
\* operand is None
AddBody(bound) ==
    IF bound.a.t = "int" /\ bound.b.t = "int"
    THEN Return(PyInt(bound.a.v + bound.b.v))
    ELSE Raise(Exc("TypeError", "unsupported operand type(s) for +: '"
                   \o bound.a.t \o "' and '" \o bound.b.t \o "'"))

\* what add does with the keyword arguments execute_action forwards to it
\* (line 40) for the mapping p; of no account when add is not reached
AddBehaviour(actions, action_name, p) ==
    IF action_name \notin DictKeys(actions)
    THEN Return(None)
    ELSE LET action_method == DictGet(actions, action_name)
             filled == FillOptional(p, MissingOptionalParams(action_method, p))
             kwargs == CallArguments(action_method, filled)
         IN  IF UnboundParams(action_method.func, kwargs) # {}
             THEN Return(None)
             ELSE AddBody(BoundArguments(action_method.func, kwargs))

AddValues == {None, PyInt(1), PyInt(2), PyInt(3)}

\* a and b absent or holding any value, with or without a foreign key
AddArguments == UNION { [S -> AddValues] : S \in SUBSET {"a", "b"} }

AddParamMaps ==
    AddArguments
    \cup { [k \in DOMAIN p \cup {"x"} |-> IF k = "x" THEN PyInt(1) ELSE p[k]] :
             p \in AddArguments }

AddActionNames == {"add", "subtract"}

AddInit ==
    /\ self_attrs = AddClientAttrs
    /\ _actions = _register_actions(self_attrs)
    /\ supplied = <<>>
    /\ listing = NoListing
    /\ th = NoThreads
    /\ frame = NoThreads
    /\ world = NoWorld
    /\ pc = "idle"
    /\ request = NoRequest
    /\ params = <<>>
    /\ result = NoResult
    /\ raised = NoException
    /\ calls = <<>>

\* the caller makes the params mapping of its next call
AddCallerBuildsParams ==
    /\ \E p \in AddParamMaps :
         /\ params' = p
         /\ supplied' = p
    /\ pc' = "idle"
    /\ request' = NoRequest
    /\ result' = NoResult
    /\ raised' = NoException
    /\ calls' = <<>>
    /\ UNCHANGED <<self_attrs, _actions, listing, th, frame, world>>

\* execute_action(action_name, params) on the example registry
AddExecuteAction ==
    /\ \E action_name \in AddActionNames :
         LET behaviour == AddBehaviour(_actions, action_name, params)
             out == execute_action(_actions, action_name, params, behaviour) IN
         /\ request' = [action |-> action_name, params |-> params,
                        behaviour |-> behaviour]
         /\ params' = out.params
         /\ result' = out.result
         /\ raised' = out.raised
         /\ calls' = out.calls
         /\ _actions' = RegistryAfterExecute(_actions, action_name, params)
    /\ pc' = "returned"
    /\ UNCHANGED <<self_attrs, supplied, listing, th, frame, world>>

AddNext == AddCallerBuildsParams \/ AddExecuteAction

SpecAdd == AddInit /\ [][AddNext]_vars

----------------------------------------------------------------------------
\* Concurrent calls of execute_action on one instance.  Each call runs in its
\* own thread with its own params mapping and its own frame of local
\* variables; self._actions is the one object the calls share.  A thread takes
\* one statement of execute_action at a time.

Threads == {1, 2}

\* every call keeps the locals of execute_action in one frame for all
SharedFrame(t) == 1

\* the frame holding the locals (action_method, missing_optional_params) of
\* the call thread t makes: each call of a Python function has its own
OwnFrame(t) == t

NoFrame == [action_method |-> None, missing_optional_params |-> <<>>]

IdleThread ==
    [pc |-> "idle", action |-> "", supplied |-> <<>>, params |-> <<>>,
     behaviour |-> Return(None), result |-> NoResult, raised |-> NoException,
     calls |-> <<>>, concurrent |-> FALSE]

InFlight(t) == th[t].pc \notin {"idle", "done"}

\* f takes a required parameter or one with a default, g an Optional one
ConcSignatures ==
    {<<Param("a", "str", Empty)>>, <<Param("a", "str", PyInt(10))>>}

ConcClientAttrs(sig) ==
    SeqClientAttrs("f", sig, "g", <<Param("a", "Optional[str]", Empty)>>)

ConcInit ==
    /\ \E sig \in ConcSignatures : self_attrs = ConcClientAttrs(sig)
    /\ _actions = _register_actions(self_attrs)
    /\ th = [t \in Threads |-> IdleThread]
    /\ frame = [i \in Threads |-> NoFrame]
    /\ world = NoWorld
    /\ supplied = <<>>
    /\ listing = NoListing
    /\ pc = "idle"
    /\ request = NoRequest
    /\ params = <<>>
    /\ result = NoResult
    /\ raised = NoException
    /\ calls = <<>>

ConcUnchanged ==
    UNCHANGED <<self_attrs, pc, request, params, result, raised, calls,
                supplied, listing, world>>

\* the thread's call returns or lets an exception escape
Finish(t, out) ==
    th' = [th EXCEPT ![t].pc = "done", ![t].params = out.params,
                     ![t].result = out.result, ![t].raised = out.raised,
                     ![t].calls = out.calls]

\* thread t enters execute_action(action_name, p) with a mapping of its own;
\* the calls under way at that moment now run concurrently with it
ConcCall(t) ==
    /\ th[t].pc \in {"idle", "done"}
    /\ \E action_name \in ActionNames, p \in SeqParamMaps,
          behaviour \in SeqBehaviours :
         th' = [u \in Threads |->
                  IF u = t
                  THEN [pc |-> "lookup", action |-> action_name, supplied |-> p,
                        params |-> p, behaviour |-> behaviour,
                        result |-> NoResult, raised |-> NoException,
                        calls |-> <<>>,
                        concurrent |-> \E v \in Threads \ {t} : InFlight(v)]
                  ELSE IF InFlight(u) THEN [th[u] EXCEPT !.concurrent = TRUE]
                  ELSE th[u]]
    /\ UNCHANGED <<_actions, frame>>
    /\ ConcUnchanged

\* lines 22-26: if action not in self._actions: return ...;
\*              action_method = self._actions[action]
ConcLookup(t) ==
    /\ th[t].pc = "lookup"
    /\ IF th[t].action \notin DictKeys(_actions)
       THEN /\ Finish(t, [params |-> th[t].params,
                          result |-> UnknownActionResult(th[t].action),
                          raised |-> NoException, calls |-> <<>>])
            /\ UNCHANGED frame
       ELSE /\ frame' = [frame EXCEPT ![OwnFrame(t)].action_method =
                                         DictGet(_actions, th[t].action)]
            /\ th' = [th EXCEPT ![t].pc = "collect"]
    /\ _actions' = RegistryAfterExecute(_actions, th[t].action, th[t].params)
    /\ ConcUnchanged

\* line 27: missing_optional_params = [...]
ConcCollect(t) ==
    /\ th[t].pc = "collect"
    /\ frame' = [frame EXCEPT ![OwnFrame(t)].missing_optional_params =
                   MissingOptionalParams(frame[OwnFrame(t)].action_method,
                                         th[t].params)]
    /\ th' = [th EXCEPT ![t].pc = "fill"]
    /\ UNCHANGED _actions
    /\ ConcUnchanged

\* lines 28-29: for p in missing_optional_params: params[p] = None
ConcFill(t) ==
    /\ th[t].pc = "fill"
    /\ th' = [th EXCEPT ![t].pc = "validate",
                        ![t].params = FillOptional(th[t].params,
                            frame[OwnFrame(t)].missing_optional_params)]
    /\ UNCHANGED <<_actions, frame>>
    /\ ConcUnchanged

\* lines 32-37: the required parameters are looked for in params
ConcValidate(t) ==
    /\ th[t].pc = "validate"
    /\ LET missing_params ==
              MissingParams(frame[OwnFrame(t)].action_method, th[t].params)
       IN  IF Len(missing_params) > 0
           THEN Finish(t, [params |-> th[t].params,
                           result |-> MissingParamsResult(th[t].action,
                                                          missing_params),
                           raised |-> NoException, calls |-> <<>>])
           ELSE th' = [th EXCEPT ![t].pc = "call"]
    /\ UNCHANGED <<_actions, frame>>
    /\ ConcUnchanged

\* lines 40-44: the method is called; its value or its exception is wrapped
ConcInvoke(t) ==
    /\ th[t].pc = "call"
    /\ LET action_method == frame[OwnFrame(t)].action_method
           r == CallMethod(action_method,
                           CallArguments(action_method, th[t].params),
                           th[t].behaviour)
       IN  IF r.outcome.kind = "return"
           THEN Finish(t, [params |-> th[t].params,
                           result |-> SuccessResult(r.outcome.value),
                           raised |-> NoException, calls |-> <<r.call>>])
           ELSE Finish(t, Handle(r.outcome.exc, th[t].params, <<r.call>>))
    /\ UNCHANGED <<_actions, frame>>
    /\ ConcUnchanged

ConcNext ==
    \E t \in Threads :
        \/ ConcCall(t)
        \/ ConcLookup(t)
        \/ ConcCollect(t)
        \/ ConcFill(t)
        \/ ConcValidate(t)
        \/ ConcInvoke(t)

SpecConc == ConcInit /\ [][ConcNext]_vars

----------------------------------------------------------------------------
\* The code-hosting clients (code_client.py, bitbucket.py, github.py): they
\* keep local clones under config.work_dir and run git there.  The working
\* directory is the one of the process (os.chdir), shared by every action
\* and by every thread.  An action takes one statement at a time: the call
\* of clone_repository, os.chdir(repo_path), subprocess.run(["git", ...]).

\* the repositories of the modelled workspace "acme"
GitRepos == {"alpha", "beta"}

\* config.access_token
AccessToken == "secret-token"

\* config.work_dir (an absolute path); the process starts in "/app"
WorkDir == "/tmp/oncallninja-repos"

\* os.path.join(self.config.work_dir, repo_slug)
LocalPath(repo) == WorkDir \o "/" \o repo

\* URLs are kept as the pieces their f-strings put together
BitbucketTokenUrl(token, org_name, repo_slug) ==
    <<"https://x-token-auth:", token, "@bitbucket.org/", org_name, "/", repo_slug, ".git">>

GitHubTokenUrl(token, owner, repo) ==
    <<"https://", token, "@github.com/", owner, "/", repo, ".git">>

\* one subprocess.run(["git", ...]): the command and the directory it ran in,
\* which is the working directory of the process at that moment
Git(cmd, cwd) == [cmd |-> cmd, cwd |-> cwd]

CalledProcessError == Exc("CalledProcessError", "git")

\* BitbucketClient.clone_repository(org_name, repo_name) on the process and
\* file system w: cwd, the clones that exist and the origin URL recorded in
\* each clone (<<>>: none).  It gives w afterwards, the git commands it ran
\* and the exception it raised.  `git` tells how the commands fare: all
\* succeed ("ok"), the update fails ("fails"), or the recovery clone fails as
\* well ("fails_twice").  `checkout` says that issue_timestamp is set and a
\* commit before it was found.
BitbucketClone(w, repo, git, checkout) ==
    LET local_path == LocalPath(repo)
        url == BitbucketTokenUrl(AccessToken, "acme", repo)
        clean_url == <<"https://bitbucket.org/", "acme", "/", repo, ".git">>
        updated ==
          IF local_path \in w.clones
          THEN LET seturl == Git("remote set-url origin url", local_path) IN
               IF git = "ok"
               THEN [w |-> [w EXCEPT !.cwd = local_path, !.origin[repo] = url],
                     ran |-> <<seturl, Git("pull", local_path)>>,
                     raised |-> NoException]
               ELSE IF git = "fails"
               THEN [w |-> [w EXCEPT !.cwd = WorkDir, !.origin[repo] = url],
                     ran |-> <<seturl, Git("pull", local_path),
                               Git("clone url local_path", WorkDir)>>,
                     raised |-> NoException]
               ELSE [w |-> [w EXCEPT !.cwd = WorkDir,
                                     !.clones = w.clones \ {local_path},
                                     !.origin[repo] = <<>>],
                     ran |-> <<seturl, Git("pull", local_path),
                               Git("clone url local_path", WorkDir)>>,
                     raised |-> CalledProcessError]
          ELSE IF git = "ok"
               THEN [w |-> [w EXCEPT !.cwd = local_path,
                                     !.clones = w.clones \cup {local_path},
                                     !.origin[repo] = clean_url],
                     ran |-> <<Git("clone url local_path", w.cwd),
                               Git("remote set-url origin clean_url", local_path),
                               Git("config credential.helper", local_path)>>,
                     raised |-> NoException]
               ELSE [w |-> w,
                     ran |-> <<Git("clone url local_path", w.cwd)>>,
                     raised |-> CalledProcessError]
    IN  IF updated.raised = NoException /\ checkout
        THEN [updated EXCEPT !.w.cwd = local_path,
                             !.ran = Append(updated.ran, Git("checkout commit", local_path))]
        ELSE updated

\* GitHubClient.clone_repository(org_name, repo_name)
GitHubClone(w, repo, git) ==
    LET local_path == LocalPath(repo)
        url == GitHubTokenUrl(AccessToken, "acme", repo)
    IN  IF local_path \in w.clones
        THEN [w |-> [w EXCEPT !.cwd = local_path, !.origin[repo] = url],
              ran |-> <<Git("remote set-url origin url", local_path),
                        Git("pull", local_path)>>,
              raised |-> IF git = "ok" THEN NoException ELSE CalledProcessError]
        ELSE IF git = "ok"
        THEN [w |-> [w EXCEPT !.cwd = local_path,
                              !.clones = w.clones \cup {local_path},
                              !.origin[repo] = url],
              ran |-> <<Git("clone url local_path", w.cwd),
                        Git("remote set-url origin url", local_path),
                        Git("config credential.helper", local_path)>>,
              raised |-> NoException]
        ELSE [w |-> w,
              ran |-> <<Git("clone url local_path", w.cwd)>>,
              raised |-> CalledProcessError]

\* BitbucketClient.commit_changes(org_name, repo_name, commit_message,
\* new_branch_name): git checkout -b, add, commit, push.  The method has no
\* os.chdir and passes no cwd, so the commands run wherever the process is;
\* outside a clone the first command fails.
commit_changes(w, repo, git) ==
    LET dir == w.cwd
    IN  IF dir \notin w.clones \/ git # "ok"
        THEN [w |-> w, ran |-> <<Git("checkout -b", dir)>>,
              raised |-> CalledProcessError]
        ELSE [w |-> w,
              ran |-> <<Git("checkout -b", dir), Git("add .", dir),
                        Git("commit", dir), Git("push push_url", dir)>>,
              raised |-> NoException]

\* a str value
PyStr(v) == [t |-> "str", v |-> v]

\* the attributes of a code-hosting client that the modelled calls use, in
\* dir() order: the @action methods of CodingClient and, on the Bitbucket
\* client, its own (the GitHub client overrides clone_repository without the
\* decorator)
CodingClientAttrs(client) ==
    LET org_and_repo == <<Param("org_name", "Optional[str]", Empty),
                          Param("repo_name", "str", Empty)>>
        get_commit_details ==
          <<"get_commit_details",
            action("", "Gets details about the commit from the local repository",
                   Func("get_commit_details",
                        org_and_repo \o <<Param("limit", "int", PyInt(10))>>))>>
        get_commit_diff ==
          <<"get_commit_diff",
            action("", "Gets diff for a commit in git diff format",
                   Func("get_commit_diff",
                        org_and_repo \o <<Param("commit_hash", "str", Empty)>>))>>
    IN  IF client = "bitbucket"
        THEN << <<"clone_repository",
                  action("", "clone the repository locally",
                         Func("clone_repository", org_and_repo))>>,
                <<"commit_changes",
                  action("", "Commits all local changes and pushes to a new Bitbucket branch",
                         Func("commit_changes", org_and_repo \o
                              <<Param("commit_message", "str", Empty),
                                Param("new_branch_name", "str", Empty),
                                Param("base_branch", "str", PyStr("main"))>>))>>,
                get_commit_details,
                get_commit_diff,
                <<"list_all_orgs",
                  action("", "Lists all accessible org_names",
                         Func("list_all_orgs", <<>>))>>,
                <<"list_repositories",
                  action("", "Lists all accessible repositories, filter repositories by passing specific org_name",
                         Func("list_repositories",
                              <<Param("filter_org_name", "Optional[str]", Empty)>>))>>,
                <<"token_map", PlainAttr>>,
                <<"work_dir", PlainAttr>> >>
        ELSE << <<"clone_repository", PlainAttr>>,
                get_commit_details,
                get_commit_diff,
                <<"work_dir", PlainAttr>> >>

\* a client of either class right after construction, in a process that has
\* two threads to run its actions; no clone exists yet
GitInit ==
    /\ \E client \in {"bitbucket", "github"} :
         /\ self_attrs = CodingClientAttrs(client)
         /\ world = [client |-> client, cwd |-> "/app", clones |-> {},
                     origin |-> [r \in GitRepos |-> <<>>]]
    /\ _actions = _register_actions(self_attrs)
    /\ th = [t \in Threads |-> [pc |-> "idle", op |-> "", repo |-> "",
                                ran |-> <<>>, raised |-> NoException]]
    /\ frame = [t \in Threads |-> [repo_path |-> ""]]
    /\ supplied = <<>>
    /\ listing = NoListing
    /\ pc = "idle"
    /\ request = NoRequest
    /\ params = <<>>
    /\ result = NoResult
    /\ raised = NoException
    /\ calls = <<>>

\* thread t enters an action for a repository: clone_repository itself,
\* get_commit_details, get_commit_diff or, on the Bitbucket client,
\* commit_changes
GitCall(t) ==
    /\ th[t].pc \in {"idle", "done"}
    /\ \E op \in {"clone_repository", "get_commit_details", "get_commit_diff",
                  "commit_changes"}, repo \in GitRepos :
         /\ op = "commit_changes" => world.client = "bitbucket"
         /\ th' = [th EXCEPT ![t] = [pc |-> IF op = "commit_changes" THEN "commit"
                                           ELSE "clone",
                                     op |-> op, repo |-> repo,
                                     ran |-> <<>>, raised |-> NoException]]
    /\ frame' = [frame EXCEPT ![t] = [repo_path |-> ""]]
    /\ UNCHANGED world
    /\ RouterUnchanged

\* repo_path = self.clone_repository(org_name, repo_name), of the class the
\* client has (th[t].ran keeps the git commands of the action's own body)
GitClone(t) ==
    /\ th[t].pc = "clone"
    /\ \E git \in {"ok", "fails", "fails_twice"}, checkout \in BOOLEAN :
         LET cloned == IF world.client = "bitbucket"
                       THEN BitbucketClone(world, th[t].repo, git, checkout)
                       ELSE GitHubClone(world, th[t].repo, git)
         IN  /\ world' = cloned.w
             /\ IF cloned.raised # NoException
                THEN /\ th' = [th EXCEPT ![t].pc = "done",
                                         ![t].raised = cloned.raised]
                     /\ UNCHANGED frame
                ELSE /\ th' = [th EXCEPT ![t].pc =
                                 IF th[t].op = "clone_repository" THEN "done"
                                 ELSE "chdir"]
                     /\ frame' = [frame EXCEPT ![t].repo_path = LocalPath(th[t].repo)]
    /\ RouterUnchanged

\* os.chdir(repo_path): the working directory of the whole process
GitChdir(t) ==
    /\ th[t].pc = "chdir"
    /\ world' = [world EXCEPT !.cwd = frame[t].repo_path]
    /\ th' = [th EXCEPT ![t].pc = "git"]
    /\ UNCHANGED frame
    /\ RouterUnchanged

\* subprocess.run(["git", "log", ...]) or subprocess.run(["git", "show", ...])
\* with no cwd argument: the child starts in the working directory the
\* process has at that moment
GitRun(t) ==
    /\ th[t].pc = "git"
    /\ th' = [th EXCEPT ![t].pc = "done",
                        ![t].ran = Append(th[t].ran,
                                          Git(IF th[t].op = "get_commit_details"
                                              THEN "log" ELSE "show", world.cwd))]
    /\ UNCHANGED <<world, frame>>
    /\ RouterUnchanged

\* the body of commit_changes
GitCommit(t) ==
    /\ th[t].pc = "commit"
    /\ \E git \in {"ok", "fails"} :
         LET committed == commit_changes(world, th[t].repo, git)
         IN  /\ world' = committed.w
             /\ th' = [th EXCEPT ![t].pc = "done", ![t].ran = committed.ran,
                                 ![t].raised = committed.raised]
    /\ UNCHANGED frame
    /\ RouterUnchanged

GitStep(t) ==
    \/ GitCall(t)
    \/ GitClone(t)
    \/ GitChdir(t)
    \/ GitRun(t)
    \/ GitCommit(t)

\* the actions of the client executed one after another
SpecGit == GitInit /\ [][GitStep(1)]_vars

\* two actions of one client running concurrently in one process
SpecGitConc == GitInit /\ [][\E t \in Threads : GitStep(t)]_vars

----------------------------------------------------------------------------
\* The Kibana client (kibana.py).  KibanaClient._make_request resolves the
\* regional configuration, then stores the credentials and a new
\* requests.Session in instance fields before it sends the request.

\* the attributes of a Kibana client in dir() order (the @action methods with
\* unannotated region = "US" among them)
KibanaClientAttrs ==
    << <<"config", PlainAttr>>,
       <<"get_available_fields",
         action("", "Fetch all available queryable field names for the given index pattern.",
                Func("get_available_fields",
                     <<Param("index_pattern", "str", Empty),
                       Param("region", "empty", PyStr("US"))>>))>>,
       <<"get_index_patterns",
         action("", "KIBANA API: Get index patterns.",
                Func("get_index_patterns",
                     <<Param("region", "empty", PyStr("US"))>>))>>,
       <<"max_allowed_hits", PlainAttr>> >>

NoConfig == [base_url |-> "", username |-> "", password |-> ""]

\* lines 47-56: the configuration of the region, or of US when the region
\* has none; NoConfig stands for the ValueError raised when there is neither
ResolveConfig(config, region) ==
    IF region \in DOMAIN config THEN config[region]
    ELSE IF "US" \in DOMAIN config THEN config["US"]
    ELSE NoConfig

\* world: config (kibana_regional_config with a US entry, or without one),
\* the instance fields self.auth and self.session (the session object is
\* named after the thread that made it) and the auth held by each session
\* object (<<>>: a requests.Session has no auth until one is assigned)
KbInit ==
    /\ self_attrs = KibanaClientAttrs
    /\ _actions = _register_actions(self_attrs)
    /\ \E regions \in {{"US", "EU"}, {"EU"}} :
         world = [config |-> [r \in regions |->
                                [base_url |-> "https://kibana-" \o r,
                                 username |-> "user-" \o r,
                                 password |-> "pass-" \o r]],
                  auth |-> <<>>, session |-> 0,
                  sessions |-> [t \in Threads |-> <<>>]]
    /\ th = [t \in Threads |-> [pc |-> "idle", region |-> "", sent |-> <<>>,
                                raised |-> NoException]]
    /\ frame = [t \in Threads |-> [kibana_config |-> NoConfig, url |-> ""]]
    /\ supplied = <<>>
    /\ listing = NoListing
    /\ pc = "idle"
    /\ request = NoRequest
    /\ params = <<>>
    /\ result = NoResult
    /\ raised = NoException
    /\ calls = <<>>

\* thread t enters _make_request(method, path, region=region); "IN" has no
\* configuration
KbCall(t) ==
    /\ th[t].pc \in {"idle", "done"}
    /\ \E region \in {"US", "EU", "IN"} :
         th' = [th EXCEPT ![t] = [pc |-> "resolve", region |-> region,
                                  sent |-> <<>>, raised |-> NoException]]
    /\ frame' = [frame EXCEPT ![t] = [kibana_config |-> NoConfig, url |-> ""]]
    /\ UNCHANGED world
    /\ RouterUnchanged

\* lines 46-60: kibana_config and url, locals of the call (the path is the
\* same in every call here)
KbResolve(t) ==
    /\ th[t].pc = "resolve"
    /\ LET kibana_config == ResolveConfig(world.config, th[t].region) IN
       IF kibana_config = NoConfig
       THEN /\ th' = [th EXCEPT ![t].pc = "done",
                                ![t].raised = Exc("ValueError",
                                    "No kibana configurations available for region "
                                    \o th[t].region)]
            /\ UNCHANGED frame
       ELSE /\ th' = [th EXCEPT ![t].pc = "auth"]
            /\ frame' = [frame EXCEPT ![t] =
                           [kibana_config |-> kibana_config,
                            url |-> kibana_config.base_url \o "/api/console/proxy"]]
    /\ UNCHANGED world
    /\ RouterUnchanged

\* line 61: self.auth = (kibana_config.username, kibana_config.password)
KbSetAuth(t) ==
    /\ th[t].pc = "auth"
    /\ world' = [world EXCEPT !.auth = <<frame[t].kibana_config.username,
                                         frame[t].kibana_config.password>>]
    /\ th' = [th EXCEPT ![t].pc = "session"]
    /\ UNCHANGED frame
    /\ RouterUnchanged

\* line 62: self.session = requests.Session()
KbNewSession(t) ==
    /\ th[t].pc = "session"
    /\ world' = [world EXCEPT !.session = t, !.sessions[t] = <<>>]
    /\ th' = [th EXCEPT ![t].pc = "session_auth"]
    /\ UNCHANGED frame
    /\ RouterUnchanged

\* line 63: self.session.auth = self.auth
KbSessionAuth(t) ==
    /\ th[t].pc = "session_auth"
    /\ world' = [world EXCEPT !.sessions[world.session] = world.auth]
    /\ th' = [th EXCEPT ![t].pc = "request"]
    /\ UNCHANGED frame
    /\ RouterUnchanged

\* lines 68-83: self.session.request(method, url, ...): the request goes to
\* the local url with the auth of whichever session self.session is now; the
\* response is returned or the failure is raised as Exception
KbRequest(t) ==
    /\ th[t].pc = "request"
    /\ \E ok \in BOOLEAN :
         th' = [th EXCEPT ![t].pc = "done",
                          ![t].sent = <<[url |-> frame[t].url,
                                         auth |-> world.sessions[world.session]]>>,
                          ![t].raised = IF ok THEN NoException
                                        ELSE Exc("Exception", "Request failed")]
    /\ UNCHANGED <<world, frame>>
    /\ RouterUnchanged

\* two _make_request calls on one client running concurrently
SpecKibanaConc ==
    KbInit /\ [][\E t \in Threads : \/ KbCall(t)
                                    \/ KbResolve(t)
                                    \/ KbSetAuth(t)
                                    \/ KbNewSession(t)
                                    \/ KbSessionAuth(t)
                                    \/ KbRequest(t)]_vars

----------------------------------------------------------------------------
\* BitbucketClient.list_all_orgs and list_repositories: one paginated GET
\* loop per organisation of token_map, with the organisation's token.

\* the largest number of pages the API holds for one organisation
MaxPages == 3

BitbucketOrgs == {"acme", "beta", "core"}

\* an endpoint: a path of the API, or the full URL of a `next` link, which
\* carries the page it leads to (page 0: no page in the URL)
MemberEndpoint == [url |-> "/repositories?role=member", page |-> 0]

\* params = {"pagelen": 100}
PageLen == [pagelen |-> 100]

NoNext == [url |-> "", page |-> 0]

\* the API's answer: the page asked for, of what the token's organisation can
\* see, with a `next` link while there are further pages
Respond(pages, org, endpoint) ==
    LET page == IF endpoint.page = 0 THEN 1 ELSE endpoint.page
        url == IF endpoint.page = 0
               THEN "https://api.bitbucket.org/2.0" \o endpoint.url
               ELSE endpoint.url
    IN  [page |-> page,
         next |-> IF page < pages[org] THEN [url |-> url, page |-> page + 1]
                  ELSE NoNext]

\* the `while True` loop for one organisation, entered with the endpoint and
\* params the enclosing method holds at that moment
RECURSIVE WhilePages(_, _, _, _, _)
WhilePages(pages, org, endpoint, query, log) ==
    LET response == Respond(pages, org, endpoint)
        sent == Append(log, [org |-> org, endpoint |-> endpoint,
                             params |-> query, next |-> response.next])
    IN  IF response.next = NoNext
        THEN [endpoint |-> endpoint, params |-> query, log |-> sent]
        ELSE WhilePages(pages, org, response.next, None, sent)

\* the `for org in self.token_map` loop: endpoint and params are assigned
\* before the loop and inside the while loop only, so each organisation
\* starts from what the one before left in them
RECURSIVE ForEachOrg(_, _, _, _, _, _, _)
ForEachOrg(pages, token_map, filter_org_name, i, endpoint, query, log) ==
    IF i > Len(token_map) THEN log
    ELSE IF filter_org_name # "" /\ token_map[i] # filter_org_name
    THEN ForEachOrg(pages, token_map, filter_org_name, i + 1, endpoint, query, log)
    ELSE LET after == WhilePages(pages, token_map[i], endpoint, query, log)
         IN  ForEachOrg(pages, token_map, filter_org_name, i + 1,
                        after.endpoint, after.params, after.log)

\* the requests list_all_orgs sends
list_all_orgs(pages, token_map) ==
    ForEachOrg(pages, token_map, "", 1, MemberEndpoint, PageLen, <<>>)

\* the requests list_repositories(filter_org_name) sends ("": none given)
list_repositories(pages, token_map, filter_org_name) ==
    ForEachOrg(pages, token_map, filter_org_name, 1,
               IF filter_org_name = "" THEN MemberEndpoint
               ELSE [url |-> "/repositories/" \o filter_org_name, page |-> 0],
               PageLen, <<>>)

\* world: token_map (it keeps its keys in insertion order: one to three
\* organisations), the pages the API holds per organisation, and the
\* requests the last listing sent
PagesInit ==
    /\ self_attrs = CodingClientAttrs("bitbucket")
    /\ _actions = _register_actions(self_attrs)
    /\ \E n \in 1..3 : \E token_map \in [1..n -> BitbucketOrgs] :
         /\ \A i \in 1..n : \A j \in 1..n : i # j => token_map[i] # token_map[j]
         /\ \E pages \in [BitbucketOrgs -> 1..MaxPages] :
              /\ \A o \in BitbucketOrgs :
                   (\A i \in 1..Len(token_map) : token_map[i] # o) => pages[o] = 1
              /\ world = [token_map |-> token_map, pages |-> pages,
                          op |-> "", filter |-> "", requests |-> <<>>]
    /\ th = NoThreads
    /\ frame = NoThreads
    /\ supplied = <<>>
    /\ listing = NoListing
    /\ pc = "idle"
    /\ request = NoRequest
    /\ params = <<>>
    /\ result = NoResult
    /\ raised = NoException
    /\ calls = <<>>

ListAllOrgs ==
    /\ world' = [world EXCEPT !.op = "list_all_orgs", !.filter = "",
                   !.requests = list_all_orgs(world.pages, world.token_map)]
    /\ RouterUnchanged /\ UNCHANGED <<th, frame>>

ListRepositories ==
    /\ \E filter_org_name \in BitbucketOrgs \cup {""} :
         world' = [world EXCEPT !.op = "list_repositories",
                     !.filter = filter_org_name,
                     !.requests = list_repositories(world.pages, world.token_map,
                                                    filter_org_name)]
    /\ RouterUnchanged /\ UNCHANGED <<th, frame>>

SpecPages == PagesInit /\ [][ListAllOrgs \/ ListRepositories]_vars

----------------------------------------------------------------------------
\* GitHubTokenManager (github_token_manager.py): make_request sends a GitHub
\* API request with the manager's Authorization header and refreshes the
\* token when the answer says the token is bad.

\* the tokens the manager may generate in a run (each refresh makes a new one)
MaxTokens == 4

\* f"Bearer {self.token}" for the n-th generated token
Bearer(n) == "Bearer github_pat_" \o ToString(n)

\* self.headers for the n-th token
AuthHeaders(n) ==
    [Authorization |-> Bearer(n), Accept |-> "application/vnd.github+json"]

\* {**a, **b}: b's entries win
MergeHeaders(a, b) ==
    [k \in DOMAIN a \cup DOMAIN b |-> IF k \in DOMAIN b THEN b[k] ELSE a[k]]

\* urls are kept as pieces; one that does not start with https:// is put
\* behind https://api.github.com
FullUrl(url) ==
    IF url[1] = "https://" THEN url ELSE <<"https://", "api.github.com">> \o Tail(url)

\* 'token' in response.text.lower(): response bodies are kept as words, and
\* str.lower is applied to each
MentionsToken(body) ==
    LET lower(word) == CASE word = "Token" -> "token"
                         [] word = "Bad" -> "bad"
                         [] OTHER -> word
    IN  \E i \in 1..Len(body) : lower(body[i]) = "token"

\* requests.request raised instead of answering (no connection)
ConnectionError == [status |-> 0, body |-> <<>>]

\* what the API may answer to a request
TmResponses ==
    { [status |-> st, body |-> b] :
        st \in {200, 401, 403, 404},
        b \in {<<"Bad", "credentials">>, <<"Token", "expired">>,
               <<"invalid", "token">>, <<"ok">>} }
    \cup {ConnectionError}

\* the refresh is attempted on any 4xx status
TokenRejected_Any4xx(response) ==
    response.status \in {401, 403, 404} /\ MentionsToken(response.body)

\* response.status_code in (401, 403) and 'token' in response.text.lower()
TokenRejected(response) ==
    response.status \in {401, 403} /\ MentionsToken(response.body)

\* refresh_token(): a new token and headers, saved to the secret manager
\* ("ok"); a failure of the save ("save_fails") leaves the new token in place
\* and raises RuntimeError, a failure of the generation ("generation_fails")
\* raises it with the old token in place
refresh_token(m, outcome) ==
    LET error == Exc("RuntimeError", "Failed to refresh GitHub token")
    IN  IF outcome = "generation_fails"
        THEN [m EXCEPT !.refreshes = m.refreshes + 1, !.raised = error]
        ELSE [m EXCEPT !.token = m.token + 1, !.headers = AuthHeaders(m.token + 1),
                       !.refreshes = m.refreshes + 1,
                       !.raised = IF outcome = "ok" THEN NoException ELSE error]

\* requests.request(method, url, **kwargs)
SendRequest(m, url, headers, response) ==
    [m EXCEPT !.sent = Append(m.sent, [url |-> url, headers |-> headers]),
              !.responses = Append(m.responses, response),
              !.raised = IF response = ConnectionError
                         THEN Exc("ConnectionError", "no connection")
                         ELSE NoException]

NoResponse == [status |-> -1, body |-> <<>>]

\* make_request(method, url, **kwargs) on the manager m whose token is near
\* expiry or not; refresh1, refresh2 and response1, response2 are how the
\* refreshes and the requests fare if they are made
make_request(m0, url, caller_headers, near_expiry, refresh1, response1, refresh2, response2) ==
    LET m == [m0 EXCEPT !.sent = <<>>, !.responses = <<>>, !.refreshes = 0,
                        !.raised = NoException, !.returned = NoResponse,
                        !.retried = FALSE]
        full == FullUrl(url)
        \* get_headers()
        m1 == IF near_expiry THEN refresh_token(m, refresh1) ELSE m
    IN  IF m1.raised # NoException THEN m1
        ELSE
        LET headers == MergeHeaders(caller_headers, m1.headers)
            m2 == SendRequest(m1, full, headers, response1)
        IN  IF m2.raised # NoException THEN m2
            ELSE IF ~TokenRejected(response1)
            THEN [m2 EXCEPT !.returned = response1]
            ELSE
            LET m3 == [refresh_token(m2, refresh2) EXCEPT !.retried = TRUE]
            IN  IF m3.raised # NoException THEN m3
                ELSE
                \* lines 209-214: the headers are merged with the new
                \* self.headers and the request is sent again
                LET m4 == SendRequest(m3, full, MergeHeaders(headers, m3.headers),
                                      response2)
                IN  IF m4.raised # NoException THEN m4
                    ELSE [m4 EXCEPT !.returned = response2]

\* world: the manager after __init__ loaded or generated its first token, and
\* what the last make_request did
TmInit ==
    /\ world = [token |-> 1, headers |-> AuthHeaders(1), sent |-> <<>>,
                responses |-> <<>>, refreshes |-> 0, raised |-> NoException,
                returned |-> NoResponse, retried |-> FALSE]
    /\ self_attrs = <<>>
    /\ _actions = <<>>
    /\ th = NoThreads
    /\ frame = NoThreads
    /\ supplied = <<>>
    /\ listing = NoListing
    /\ pc = "idle"
    /\ request = NoRequest
    /\ params = <<>>
    /\ result = NoResult
    /\ raised = NoException
    /\ calls = <<>>

\* one make_request call: the url and the headers argument of the caller
\* (none, or some of its own), and how the refreshes and the requests fare
TmMakeRequest ==
    /\ world.token + 2 <= MaxTokens
    /\ \E url \in {<<"", "/user">>, <<"https://", "uploads.github.com/x">>},
          caller_headers \in {<<>>, [Authorization |-> "Bearer caller"],
                              [Accept |-> "text/plain"]},
          near_expiry \in BOOLEAN, response1 \in TmResponses :
         \E refresh1 \in (IF near_expiry
                          THEN {"ok", "save_fails", "generation_fails"}
                          ELSE {"ok"}),
            refresh2 \in (IF TokenRejected(response1)
                          THEN {"ok", "save_fails", "generation_fails"}
                          ELSE {"ok"}),
            response2 \in (IF TokenRejected(response1) THEN TmResponses
                           ELSE {ConnectionError}) :
           world' = make_request(world, url, caller_headers, near_expiry,
                                 refresh1, response1, refresh2, response2)
    /\ RouterUnchanged /\ UNCHANGED <<th, frame>>

SpecToken == TmInit /\ [][TmMakeRequest]_vars

----------------------------------------------------------------------------
\* KibanaClient.get_logs and fetch_logs_by_kql: a _count request, the check
\* against max_allowed_hits, then the _search request.  The index keeps
\* receiving logs while the client runs.

\* the most logs that match the query in the modelled index
MaxLogs == 3

\* the hits of a _search response: the newest `size` matching logs
SearchHits(size, matching) == IF size < matching THEN size ELSE matching

\* lines 191-192 and 248-250: the call raises when the count and the size
\* both exceed max_allowed_hits
TooManyLogs(log_count, size, max_allowed_hits) ==
    log_count > max_allowed_hits /\ size > max_allowed_hits

\* world: the client's max_allowed_hits as given to the constructor (1000 by
\* default; here on the scale of MaxLogs), the number of logs in the index
\* that match the query, and the call under way
LogsInit ==
    /\ self_attrs = KibanaClientAttrs
    /\ _actions = _register_actions(self_attrs)
    /\ \E max_allowed_hits \in {1, 2}, matching \in 0..MaxLogs :
         world = [max_allowed_hits |-> max_allowed_hits, matching |-> matching,
                  call |-> [pc |-> "idle", op |-> "", size |-> 0,
                            log_count |-> -1, sent |-> <<>>, hits |-> -1,
                            raised |-> NoException]]
    /\ th = NoThreads
    /\ frame = NoThreads
    /\ supplied = <<>>
    /\ listing = NoListing
    /\ pc = "idle"
    /\ request = NoRequest
    /\ params = <<>>
    /\ result = NoResult
    /\ raised = NoException
    /\ calls = <<>>

\* get_logs(..., size=size) or fetch_logs_by_kql(..., size=size) is entered
\* and builds its query (size is 100 by default; here on the scale of
\* MaxLogs)
LogsCall ==
    /\ world.call.pc \in {"idle", "done"}
    /\ \E op \in {"get_logs", "fetch_logs_by_kql"}, size \in 1..3 :
         world' = [world EXCEPT !.call = [pc |-> "count", op |-> op,
                                          size |-> size, log_count |-> -1,
                                          sent |-> <<>>, hits |-> -1,
                                          raised |-> NoException]]
    /\ RouterUnchanged /\ UNCHANGED <<th, frame>>

\* the _count request and the two checks on its answer
LogsCount ==
    /\ world.call.pc = "count"
    /\ \E ok \in BOOLEAN :
         LET log_count == world.matching
             counted == [world.call EXCEPT !.sent = <<"_count">>,
                                           !.log_count = log_count]
         IN  world' = [world EXCEPT !.call =
               IF ~ok
               THEN [world.call EXCEPT !.sent = <<"_count">>, !.pc = "done",
                        !.raised = Exc("Exception", "Request failed")]
               ELSE IF TooManyLogs(log_count, world.call.size, world.max_allowed_hits)
               THEN [counted EXCEPT !.pc = "done",
                        !.raised = Exc("Exception", "Query would return too many logs")]
               ELSE IF log_count = 0
               THEN [counted EXCEPT !.pc = "done",
                        !.raised = Exc("Exception", "Query produced 0 logs")]
               ELSE [counted EXCEPT !.pc = "search"]]
    /\ RouterUnchanged /\ UNCHANGED <<th, frame>>

\* the _search request with the size the caller asked for
LogsSearch ==
    /\ world.call.pc = "search"
    /\ \E ok \in BOOLEAN :
         world' = [world EXCEPT !.call =
           IF ok
           THEN [world.call EXCEPT !.pc = "done",
                    !.sent = Append(world.call.sent, "_search"),
                    !.hits = SearchHits(world.call.size, world.matching)]
           ELSE [world.call EXCEPT !.pc = "done",
                    !.sent = Append(world.call.sent, "_search"),
                    !.raised = Exc("Exception", "Request failed")]]
    /\ RouterUnchanged /\ UNCHANGED <<th, frame>>

\* the services that log keep logging: one more matching log is indexed
LogArrives ==
    /\ world.matching < MaxLogs
    /\ world' = [world EXCEPT !.matching = world.matching + 1]
    /\ RouterUnchanged /\ UNCHANGED <<th, frame>>

SpecLogs == LogsInit /\ [][LogsCall \/ LogsCount \/ LogsSearch \/ LogArrives]_vars

----------------------------------------------------------------------------
\* KibanaClient._fetch_field_details and get_available_fields, both wrapped
\* in functools.lru_cache.  The cache key is made of self and the arguments
\* as they were passed (a keyword argument and an omitted default make
\* different keys).  lru_cache holds 128 entries; the modelled calls are
\* fewer, so no entry is evicted.

\* what the fields API knows about the index pattern (it changes when the
\* mapping of the index changes)
FieldLists ==
    { <<[name |-> "level"]>>, <<[name |-> "level"], [name |-> "trace"]>> }

\* {field['name'] for field in field_details if 'name' in field}
FieldNames(field_details) ==
    { field_details[i].name : i \in 1..Len(field_details) }

\* get_available_fields is called in two forms: get_available_fields(pattern),
\* with region left to its default ("default"), and
\* get_available_fields(pattern, region=region) ("keyword"); the region a
\* call form leaves the method with
RegionOf(form, region) == IF form = "default" THEN "US" ELSE region

\* an lru_cache that forgets empty results
CachePut_SkipsEmpty(cache, key, value) ==
    IF value = <<>> THEN cache ELSE (key :> value) @@ cache

\* lru_cache stores whatever the function returned
CachePut(cache, key, value) == (key :> value) @@ cache

\* _fetch_field_details(index_pattern, region=region), the one form the
\* client calls it in, through its cache: the caches afterwards, the value,
\* and the HTTP requests sent.  The body gives the fields of the response,
\* or [] when _make_request raised (except Exception).
fetch_field_details(w, self, index_pattern, region, ok) ==
    LET key == <<self, index_pattern, region>>
    IN  IF key \in DOMAIN w.details
        THEN [details |-> w.details, value |-> w.details[key], sent |-> 0]
        ELSE LET value == IF ok THEN w.server ELSE <<>>
             IN  [details |-> CachePut(w.details, key, value),
                  value |-> value, sent |-> 1]

\* get_available_fields through its own cache, built on the one above; the
\* form of the call is part of the key (an omitted region is not in it)
get_available_fields(w, self, form, index_pattern, region, ok) ==
    LET key == IF form = "default" THEN <<self, index_pattern>>
               ELSE <<self, index_pattern, "region", region>>
    IN  IF key \in DOMAIN w.names
        THEN [details |-> w.details, names |-> w.names,
              value |-> w.names[key], sent |-> 0]
        ELSE LET fetched == fetch_field_details(w, self, index_pattern,
                                                RegionOf(form, region), ok)
                 value == FieldNames(fetched.value)
             IN  [details |-> fetched.details,
                  names |-> (key :> value) @@ w.names,
                  value |-> value, sent |-> fetched.sent]

\* world: the fields API's present answer, the two caches, the values each
\* call (method, client, region) returned first, and the last call
CacheInit ==
    /\ self_attrs = KibanaClientAttrs
    /\ _actions = _register_actions(self_attrs)
    /\ \E server \in FieldLists :
         world = [server |-> server, details |-> <<>>, names |-> <<>>,
                  first |-> <<>>,
                  last |-> [op |-> "", self |-> 0, region |-> "",
                            before |-> FALSE, sent |-> 0, value |-> <<>>]]
    /\ th = NoThreads
    /\ frame = NoThreads
    /\ supplied = <<>>
    /\ listing = NoListing
    /\ pc = "idle"
    /\ request = NoRequest
    /\ params = <<>>
    /\ result = NoResult
    /\ raised = NoException
    /\ calls = <<>>

\* a call of _fetch_field_details on the client (self is part of every key);
\* world.first keeps what the same call returned the first time
FetchFieldDetails ==
    /\ \E self \in {1}, region \in {"US", "EU"}, ok \in BOOLEAN :
         LET out == fetch_field_details(world, self, "logs-*", region, ok)
             call == <<"_fetch_field_details", self, region>>
         IN  world' = [world EXCEPT
                 !.details = out.details,
                 !.first = IF call \in DOMAIN world.first THEN world.first
                           ELSE (call :> out.value) @@ world.first,
                 !.last = [op |-> "_fetch_field_details", self |-> self,
                           region |-> region,
                           before |-> call \in DOMAIN world.first,
                           sent |-> out.sent, value |-> out.value]]
    /\ RouterUnchanged /\ UNCHANGED <<th, frame>>

\* a call of get_available_fields in either form
GetAvailableFields ==
    /\ \E self \in {1}, form \in {"default", "keyword"}, region \in {"US", "EU"},
          ok \in BOOLEAN :
         LET out == get_available_fields(world, self, form, "logs-*", region, ok)
             call == <<"get_available_fields", self, RegionOf(form, region)>>
         IN  world' = [world EXCEPT
                 !.details = out.details,
                 !.names = out.names,
                 !.first = IF call \in DOMAIN world.first THEN world.first
                           ELSE (call :> out.value) @@ world.first,
                 !.last = [op |-> "get_available_fields", self |-> self,
                           region |-> RegionOf(form, region),
                           before |-> call \in DOMAIN world.first,
                           sent |-> out.sent, value |-> out.value]]
    /\ RouterUnchanged /\ UNCHANGED <<th, frame>>

\* the mapping of the index changes: the fields API answers differently
FieldsChange ==
    /\ \E server \in FieldLists \ {world.server} :
         world' = [world EXCEPT !.server = server]
    /\ RouterUnchanged /\ UNCHANGED <<th, frame>>

SpecCache ==
    CacheInit /\ [][FetchFieldDetails \/ GetAvailableFields \/ FieldsChange]_vars

----------------------------------------------------------------------------
\* Vocabulary of the properties

Returned == pc = "returned"

Registered == request.action \in DictKeys(_actions)

\* the registered method the observed call asked for
Requested == DictGet(_actions, request.action)

SeqSet(s) == { s[i] : i \in 1..Len(s) }

\* the two shapes of the result envelope, with exactly two fields each
IsEnvelope(r) ==
    \/ DOMAIN r = {"status", "data"} /\ r.status = "success"
    \/ DOMAIN r = {"status", "message"} /\ r.status = "error"

\* the observed call reached the method and the method raised e
MethodRaised(e) ==
    /\ Registered
    /\ calls # <<>>
    /\ request.behaviour = Raise(e)

\* an exception class outside the Exception hierarchy
OnlyBaseException(e) == e.cls \in {"KeyboardInterrupt", "SystemExit", "GeneratorExit"}

----------------------------------------------------------------------------
\* C1 (as stated): execute_action never raises to its caller; whatever the
\* action, the params and the behaviour of the method, it returns a success
\* envelope or an error envelope.
C1_NeverRaises ==
    Returned => raised = NoException /\ IsEnvelope(result)

\* C1 (amended): execute_action returns a two-field success or error envelope
\* and raises nothing, except when the invoked method raises an exception that
\* does not derive from Exception (KeyboardInterrupt, SystemExit,
\* GeneratorExit): that exception reaches the caller and nothing is returned.
C1_EnvelopeUnlessBaseException ==
    Returned =>
        IF \E e \in MethodExceptions : MethodRaised(e) /\ OnlyBaseException(e)
        THEN raised = request.behaviour.exc /\ result = NoResult
        ELSE raised = NoException /\ IsEnvelope(result)

C1_Witness ==
    /\ Returned
    /\ MethodRaised(Exc("Exception", "boom"))
    /\ raised = NoException
    /\ result = [status |-> "error", message |-> "boom"]

----------------------------------------------------------------------------
\* the required parameters of the requested action that the caller's params
\* lack, in declaration order
MissingRequiredOfRequest ==
    SelectSeq(Names(Requested.func.sig),
              LAMBDA n : n \in SeqSet(Requested._required_params)
                         /\ n \notin DOMAIN request.params)

\* C2: for a registered action and params lacking at least one of its
\* required parameters, execute_action returns the error 'Missing required
\* parameters for <a>: <p1>, <p2>, ...' naming every missing required
\* parameter in declaration order, and invokes the method zero times.
C2_MissingRequiredReported ==
    (Returned /\ Registered /\ IsMapping(request.params)
        /\ Len(MissingRequiredOfRequest) > 0) =>
        /\ result = [status |-> "error",
                     message |-> "Missing required parameters for " \o request.action
                                 \o ": " \o Join(MissingRequiredOfRequest)]
        /\ raised = NoException
        /\ calls = <<>>

C2_Witness ==
    /\ Returned
    /\ request.action = "f"
    /\ DOMAIN request.params = {"x"}
    /\ result = [status |-> "error",
                 message |-> "Missing required parameters for f: a, b"]
    /\ calls = <<>>

----------------------------------------------------------------------------
\* C3: for an action name that is not a key of the registry, execute_action
\* returns the error 'Unknown action: <name>' whatever the params, raises
\* nothing and invokes no registered method.
C3_UnknownAction ==
    (Returned /\ ~Registered) =>
        /\ result = [status |-> "error",
                     message |-> "Unknown action: " \o request.action]
        /\ raised = NoException
        /\ calls = <<>>

C3_Witness ==
    /\ Returned
    /\ request.action = "h"
    /\ DOMAIN request.params = {"a", "x"}
    /\ result = [status |-> "error", message |-> "Unknown action: h"]

----------------------------------------------------------------------------
\* C4: for a registered action and params holding exactly its required
\* parameters (any values), execute_action invokes the method, and when the
\* method returns v it returns {status: 'success', data: v}, v unmodified.
C4_SuccessPassesValue ==
    (Returned /\ Registered /\ IsMapping(request.params)
        /\ DOMAIN request.params = SeqSet(Requested._required_params)) =>
        /\ Len(calls) = 1
        /\ calls[1].method = request.action
        /\ calls[1].bound # NotBound
        /\ request.behaviour.kind = "return" =>
              /\ result = [status |-> "success", data |-> request.behaviour.value]
              /\ raised = NoException

C4_Witness ==
    /\ Returned
    /\ request.action = "f"
    /\ Requested._required_params = <<"a", "b">>
    /\ request.params = [k \in {"a", "b"} |-> None]
    /\ result = [status |-> "success", data |-> PyInt(3)]
    /\ Len(calls) = 1

----------------------------------------------------------------------------
\* a params that is no mapping makes the membership tests (when the action
\* has parameters to test) or else the iteration at the call raise TypeError
RaisedBeforeCall == Registered /\ ~IsMapping(request.params)

ExpectedTypeError ==
    IF Len(Requested.func.sig) > 0
          /\ \E i \in 1..Len(Requested.func.sig) :
                Requested.func.sig[i].name
                    \in SeqSet(Requested._required_params \o Requested._optional_params)
    THEN Exc("TypeError", "argument of type 'NoneType' is not iterable")
    ELSE Exc("TypeError", "'NoneType' object is not iterable")

\* C5 (as stated): when the invoked method raises an exception e, or an
\* exception is raised while filling, validating or building the arguments,
\* execute_action returns {status: 'error', message: str(e)} and e does not
\* reach the caller.
C5_ExceptionBecomesError ==
    /\ \A e \in MethodExceptions :
          (Returned /\ MethodRaised(e)) =>
              /\ result = [status |-> "error", message |-> ExcStr(e)]
              /\ raised = NoException
    /\ (Returned /\ RaisedBeforeCall) =>
          /\ result = [status |-> "error", message |-> ExcStr(ExpectedTypeError)]
          /\ raised = NoException

\* C5 (amended): when the invoked method raises an exception e that derives
\* from Exception, or such an exception is raised while filling, validating
\* or building the arguments, execute_action returns {status: 'error',
\* message: str(e)} and e does not reach the caller; an exception that
\* derives from BaseException only is not converted and reaches the caller.
C5_ExceptionSubclassBecomesError ==
    /\ \A e \in MethodExceptions :
          (Returned /\ MethodRaised(e)) =>
              IF OnlyBaseException(e)
              THEN raised = e /\ result = NoResult
              ELSE /\ result = [status |-> "error", message |-> ExcStr(e)]
                   /\ raised = NoException
    /\ (Returned /\ RaisedBeforeCall) =>
          /\ result = [status |-> "error", message |-> ExcStr(ExpectedTypeError)]
          /\ raised = NoException
          /\ calls = <<>>

C5_Witness ==
    /\ Returned
    /\ MethodRaised(Exc("KeyError", "id"))
    /\ result = [status |-> "error", message |-> "'id'"]
    /\ raised = NoException

----------------------------------------------------------------------------
\* C6: every parameter of the invoked action's optional set that the caller's
\* params lack is passed to the method bound explicitly to None, so the call
\* carries a binding for every optional parameter, also for an optional-typed
\* parameter whose declared default is not None (limit: Optional[int] = 10).
C6_OmittedOptionalPassedAsNone ==
    (Returned /\ Registered /\ calls # <<>>) =>
        \A n \in SeqSet(Requested._optional_params) :
            /\ n \in DOMAIN calls[1].kwargs
            /\ n \notin DOMAIN request.params =>
                  /\ calls[1].kwargs[n] = None
                  /\ calls[1].bound # NotBound
                  /\ calls[1].bound[n] = None

\* f(a: Optional[str] = 10) called with params {}: the method sees a = None
C6_Witness ==
    /\ Returned
    /\ request.action = "f"
    /\ Requested.func.sig = <<Param("a", "Optional[str]", PyInt(10))>>
    /\ request.params = <<>>
    /\ Len(calls) = 1
    /\ calls[1].bound = [k \in {"a"} |-> None]

----------------------------------------------------------------------------
\* what the specification calls an explicit optional wrapper type
IsExplicitOptional(annotation) == annotation = "Optional[str]"

\* the parameters of the requested action that have no default and no
\* optional wrapper type, and that the caller's params lack
UndefaultedNonOptionalMissing ==
    { i \in 1..Len(Requested.func.sig) :
        /\ Requested.func.sig[i].default = Empty
        /\ ~IsExplicitOptional(Requested.func.sig[i].annotation)
        /\ Requested.func.sig[i].name \notin DOMAIN request.params }

\* C7: a parameter is classified required if and only if it has no default
\* and its declared type is not an explicit optional wrapper; so a parameter
\* without default typed List[str], Dict or Union[str, datetime] is required,
\* and omitting it gives the missing-required-parameters error.
C7_RequiredIffNoDefaultAndNotOptional ==
    (Returned /\ Registered /\ IsMapping(request.params)) =>
        /\ \A i \in 1..Len(Requested.func.sig) :
              LET param == Requested.func.sig[i] IN
              (param.name \in SeqSet(Requested._required_params))
                  <=> (param.default = Empty /\ ~IsExplicitOptional(param.annotation))
        /\ UndefaultedNonOptionalMissing # {} =>
              /\ calls = <<>>
              /\ result.status = "error"

----------------------------------------------------------------------------
\* C8: a parameter is in the optional set if and only if its declared type is
\* an explicit optional wrapper or it has a default; so a plainly typed or
\* unannotated parameter with a default (path: str = "", region = "US") is in
\* the optional set.
C8_OptionalIffOptionalTypeOrDefault ==
    \A k \in 1..Len(_actions) :
        LET method == _actions[k][2] IN
        \A i \in 1..Len(method.func.sig) :
            LET param == method.func.sig[i] IN
            (param.name \in SeqSet(method._optional_params))
                <=> (IsExplicitOptional(param.annotation) \/ param.default # Empty)

----------------------------------------------------------------------------
\* C9: for every action descriptor the required list and the optional list
\* partition the parameter list: every declared parameter is in exactly one
\* of the two, whatever its annotation and default.
C9_RequiredOptionalPartition ==
    \A k \in 1..Len(_actions) :
        LET method == _actions[k][2] IN
        \A n \in SeqSet(method._all_params) :
            (n \in SeqSet(method._required_params))
                <=> ~(n \in SeqSet(method._optional_params))

----------------------------------------------------------------------------
\* the caller's params without the keys the requested action does not declare
DeclaredOnly(p) ==
    [k \in (DOMAIN p) \cap SeqSet(Requested._all_params) |-> p[k]]

\* C10: keys of params outside the action's declared parameter list are
\* dropped: the method receives only keys of its own parameter list, and the
\* call returns what it returns without those keys (they cause no error).
C10_ExtraKeysDropped ==
    (Returned /\ Registered /\ IsMapping(request.params)) =>
        LET plain == execute_action(_actions, request.action,
                                    DeclaredOnly(request.params), request.behaviour)
        IN  /\ \A i \in 1..Len(calls) :
                  DOMAIN calls[i].kwargs \subseteq SeqSet(Requested._all_params)
            /\ result = plain.result
            /\ raised = plain.raised
            /\ calls = plain.calls
            /\ (request.behaviour.kind = "return"
                  /\ SeqSet(Requested._required_params) \subseteq DOMAIN request.params)
                  => result = [status |-> "success", data |-> request.behaviour.value]

C10_Witness ==
    /\ Returned
    /\ request.action = "f"
    /\ request.params = [k \in {"a", "x"} |-> PyInt(1)]
    /\ Requested._all_params = <<"a">>
    /\ Len(calls) = 1
    /\ calls[1].kwargs = [k \in {"a"} |-> PyInt(1)]
    /\ result = [status |-> "success", data |-> None]

----------------------------------------------------------------------------
\* C11: the gateway never retries: one execute_action call invokes the method
\* at most once, exactly once when the action is registered and no required
\* parameter is missing, zero times otherwise, and not again when it raises.
C11_AtMostOneInvocation ==
    Returned =>
        /\ Len(calls) <= 1
        /\ IsMapping(request.params) =>
              Len(calls) = IF Registered /\ Len(MissingRequiredOfRequest) = 0
                           THEN 1 ELSE 0
        /\ \A e \in MethodExceptions : MethodRaised(e) => Len(calls) = 1

C11_Witness ==
    /\ Returned
    /\ MethodRaised(Exc("Exception", "boom"))
    /\ Len(calls) = 1
    /\ result = [status |-> "error", message |-> "boom"]

----------------------------------------------------------------------------
\* C20: execute_action changes the caller's params only by adding, for each
\* absent parameter of the action's optional list, that key with value None:
\* no existing key or value changes, an unknown action leaves the mapping
\* untouched, and the None entries are there also when the call returns the
\* missing-required-parameters error or the method raises.
C20_ParamsOnlyGainNone ==
    (Returned /\ IsMapping(request.params)) =>
        IF ~Registered
        THEN params = request.params
        ELSE /\ DOMAIN params
                  = (DOMAIN request.params) \cup SeqSet(Requested._optional_params)
             /\ \A k \in DOMAIN request.params : params[k] = request.params[k]
             /\ \A k \in SeqSet(Requested._optional_params) \ DOMAIN request.params :
                    params[k] = None

\* f(a: str, b: Optional[str]) asked with {x: 1}: the error names a, and b is
\* left in the caller's mapping
C20_Witness ==
    /\ Returned
    /\ request.action = "f"
    /\ request.params = [k \in {"x"} |-> PyInt(1)]
    /\ result = [status |-> "error",
                 message |-> "Missing required parameters for f: a"]
    /\ DOMAIN params = {"x", "b"}
    /\ params["b"] = None
    /\ params["x"] = PyInt(1)

----------------------------------------------------------------------------
\* the registry a newly constructed instance of the same client holds
Fresh == _register_actions(self_attrs)

\* C12: the registry is immutable after construction: after any sequence of
\* execute_action and available_actions calls the registered names and each
\* action's description, parameter list, required list and optional list are
\* what they were when construction finished.
C12_RegistryImmutable == _actions = Fresh

C12_Witness ==
    /\ Returned
    /\ listing # NoListing
    /\ result = [status |-> "success", data |-> PyInt(3)]
    /\ params # request.params
    /\ _actions = Fresh

----------------------------------------------------------------------------
\* C13 (as stated): the outcome of a call (the method invoked, its arguments,
\* the envelope) for an action name and the parameters the caller supplied is
\* that of a first call on a new instance; an earlier call's parameter
\* filling has no influence on it.
C13_SameAsFirstCallOnSupplied ==
    Returned =>
        LET first == execute_action(Fresh, request.action, supplied,
                                    request.behaviour)
        IN  /\ result = first.result
            /\ raised = first.raised
            /\ calls = first.calls

\* C13 (amended): the outcome of a call for an action name and the contents
\* of the params mapping at the time of the call is that of a first call on a
\* new instance: the gateway retains nothing.  The None placeholders an
\* earlier call put in a mapping are part of those contents when the caller
\* passes the same mapping again.
C13_SameAsFirstCallOnContents ==
    Returned =>
        LET first == execute_action(Fresh, request.action, request.params,
                                    request.behaviour)
        IN  /\ result = first.result
            /\ raised = first.raised
            /\ calls = first.calls
            /\ params = first.params

\* a call on a mapping that an earlier call has filled
C13_Witness ==
    /\ Returned
    /\ request.params # supplied
    /\ Len(calls) = 1
    /\ "a" \in DOMAIN calls[1].kwargs
    /\ "a" \notin DOMAIN supplied

----------------------------------------------------------------------------
\* the entries of the listing keyed by a name, and the names an entry lists
EntriesFor(name) == { i \in 1..Len(listing) : listing[i][1] = name }

ListedParams(entry) ==
    IF "params" \in DOMAIN entry[2] THEN entry[2].params ELSE <<>>

\* C15: for every registered action, available_actions() has exactly one
\* entry keyed by its name, and the parameter names of that entry are exactly
\* the union of its required and optional parameters, each once.
C15_ListingIsRequiredPlusOptional ==
    listing # NoListing =>
        \A k \in 1..Len(_actions) :
            LET method == _actions[k][2] IN
            /\ Cardinality(EntriesFor(_actions[k][1])) = 1
            /\ \A i \in EntriesFor(_actions[k][1]) :
                  LET listed == ListedParams(listing[i]) IN
                  /\ { listed[j].name : j \in 1..Len(listed) }
                        = SeqSet(method._required_params)
                          \cup SeqSet(method._optional_params)
                  /\ \A j1, j2 \in 1..Len(listed) :
                        listed[j1].name = listed[j2].name => j1 = j2
                  /\ SeqSet(method._required_params)
                        \cap SeqSet(method._optional_params) = {}

----------------------------------------------------------------------------
\* C16: in available_actions() an action without parameters has no params
\* key, and a parameter entry carries optional: true if and only if the
\* parameter is in the action's optional set; required ones carry no flag.
C16_OptionalFlagIffInOptionalSet ==
    listing # NoListing =>
        \A k \in 1..Len(_actions) :
            LET method == _actions[k][2] IN
            \A i \in EntriesFor(_actions[k][1]) :
                /\ Len(method._all_params) = 0 => "params" \notin DOMAIN listing[i][2]
                /\ \A j \in 1..Len(ListedParams(listing[i])) :
                      LET info == ListedParams(listing[i])[j] IN
                      /\ ("optional" \in DOMAIN info)
                            <=> (info.name \in SeqSet(method._optional_params))
                      /\ info.name \in SeqSet(method._required_params)
                            => "optional" \notin DOMAIN info

----------------------------------------------------------------------------
\* C17: available_actions() is idempotent and free of side effects: whenever
\* it is called, before or after any execute_action calls, it returns the
\* listing of the registry as constructed, and a further call would return
\* the same.
C17_ListingStable ==
    /\ listing # NoListing => listing = available_actions(Fresh)
    /\ available_actions(_actions) = available_actions(Fresh)

C17_Witness ==
    /\ listing # NoListing
    /\ Len(listing) = 2
    /\ Returned
    /\ Len(calls) = 1
    /\ listing = available_actions(_actions)

----------------------------------------------------------------------------
\* the names the two marked attributes f1 and f2 resolve to
NameOfF1 == self_attrs[1][2]._action_name

NameOfF2 == self_attrs[2][2]._action_name

\* C19: when two marked attributes resolve to the same action name,
\* construction succeeds and the registry holds one entry for the name, bound
\* to the attribute found later in the scan; execute_action under the name
\* invokes only that method and available_actions lists the name once.
C19_LastRegistrationWins ==
    NameOfF1 = NameOfF2 =>
        /\ Len(_actions) = 1
        /\ _actions[1][1] = NameOfF2
        /\ _actions[1][2] = self_attrs[2][2]
        /\ Returned =>
              \A i \in 1..Len(calls) : calls[i].method = "f2"
        /\ (Returned /\ request.action = NameOfF2 /\ IsMapping(request.params)
              /\ Len(MissingRequiredOfRequest) = 0) => Len(calls) = 1
        /\ listing # NoListing =>
              /\ Len(listing) = 1
              /\ listing[1][1] = NameOfF2

C19_Witness ==
    /\ NameOfF1 = "g"
    /\ NameOfF2 = "g"
    /\ self_attrs[1][2].func.sig # self_attrs[2][2].func.sig
    /\ Returned
    /\ request.action = "g"
    /\ Len(calls) = 1
    /\ calls[1].method = "f2"
    /\ listing # NoListing

----------------------------------------------------------------------------
\* C18: on the registry whose only action is add(a: int, b: int = 0):
\* execute_action('add', {'a': 3}) returns success with data 3,
\* execute_action('add', {}) returns an error whose message names a, and
\* execute_action('subtract', {'a': 1, 'b': 2}) returns the error
\* 'Unknown action: subtract'.
C18_AddScenario ==
    (pc = "returned" /\ self_attrs = AddClientAttrs) =>
        /\ (request.action = "add" /\ request.params = [a |-> PyInt(3)]) =>
               /\ result = SuccessResult(PyInt(3))
               /\ raised = NoException
        /\ (request.action = "add" /\ request.params = <<>>) =>
               /\ result = ErrorResult("Missing required parameters for add: a")
               /\ raised = NoException
               /\ calls = <<>>
        /\ (request.action = "subtract"
              /\ request.params = [a |-> PyInt(1), b |-> PyInt(2)]) =>
               /\ result = ErrorResult("Unknown action: subtract")
               /\ raised = NoException
               /\ calls = <<>>

\* add was called with a = 3 alone and ran with b at its default
C18_Witness ==
    /\ pc = "returned"
    /\ self_attrs = AddClientAttrs
    /\ request.action = "add"
    /\ request.params = [a |-> PyInt(3)]
    /\ Len(calls) = 1
    /\ calls[1].bound = [a |-> PyInt(3), b |-> PyInt(0)]
    /\ result = SuccessResult(PyInt(3))

\* the two error cases of the scenario are reached as well
C18_MissingReached ==
    /\ pc = "returned" /\ self_attrs = AddClientAttrs
    /\ request.action = "add" /\ request.params = <<>>

C18_UnknownReached ==
    /\ pc = "returned" /\ self_attrs = AddClientAttrs
    /\ request.action = "subtract"
    /\ request.params = [a |-> PyInt(1), b |-> PyInt(2)]

----------------------------------------------------------------------------
\* C14: execute_action calls running concurrently on one instance, each with
\* its own params mapping, do not interfere: in every interleaving a finished
\* call has validated and forwarded arguments from its own params only and
\* returned its own method's outcome, exactly as the same call made alone on
\* the registry as constructed, and the registry is unchanged.
C14_ConcurrentCallsIndependent ==
    /\ _actions = Fresh
    /\ \A t \in DOMAIN th :
         th[t].pc = "done" =>
            LET alone == execute_action(Fresh, th[t].action, th[t].supplied,
                                        th[t].behaviour)
            IN  /\ th[t].result = alone.result
                /\ th[t].raised = alone.raised
                /\ th[t].calls = alone.calls
                /\ th[t].params = alone.params

\* two calls that ran concurrently, for different registered actions and with
\* different mappings, have both finished, each having invoked its own method
C14_Witness ==
    /\ DOMAIN th = Threads
    /\ \A t \in Threads :
         /\ th[t].pc = "done"
         /\ th[t].concurrent
         /\ Len(th[t].calls) = 1
    /\ th[1].action = "f" /\ th[2].action = "g"
    /\ th[1].calls[1].method = "f1" /\ th[2].calls[1].method = "f2"
    /\ th[1].supplied = [a |-> PyInt(1)]
    /\ th[2].supplied = <<>>
    /\ th[2].params = [a |-> None]
    /\ th[1].result = SuccessResult(PyInt(3))
    /\ th[2].result = ErrorResult("boom")

----------------------------------------------------------------------------
\* Vocabulary of the properties of the code-hosting clients

\* the access token is one of the pieces of the URL
ContainsToken(url) ==
    \E i \in 1..Len(url) : url[i] = AccessToken

\* C21: commit_changes runs its git checkout/add/commit/push commands in the
\* local clone of the repository named by its arguments, whatever actions ran
\* before it in the same process.
C21_CommitRunsInNamedClone ==
    \A t \in DOMAIN th :
        (th[t].op = "commit_changes" /\ th[t].pc = "done"
           /\ LocalPath(th[t].repo) \in world.clones) =>
            \A i \in 1..Len(th[t].ran) :
                th[t].ran[i].cwd = LocalPath(th[t].repo)

\* C22: after clone_repository returns successfully (Bitbucket or GitHub), the
\* origin remote URL recorded in the local clone does not contain the access
\* token, after the first clone and after every later call.
C22_OriginHasNoToken ==
    \A t \in DOMAIN th :
        (th[t].op # "commit_changes" /\ th[t].pc \in {"chdir", "git", "done"}
           /\ th[t].raised = NoException) =>
            ~ContainsToken(world.origin[th[t].repo])

\* C23: get_commit_details and get_commit_diff run their git command in the
\* directory of the repository they were asked about, in every interleaving
\* of two such actions executed concurrently for different repositories.
C23_GitRunsInOwnRepository ==
    \A t \in DOMAIN th :
        (th[t].op \in {"get_commit_details", "get_commit_diff"}
           /\ th[t].pc = "done" /\ th[t].raised = NoException) =>
            \A i \in 1..Len(th[t].ran) :
                th[t].ran[i].cmd \in {"log", "show"} =>
                    th[t].ran[i].cwd = LocalPath(th[t].repo)

----------------------------------------------------------------------------
\* C24: each KibanaClient._make_request call sends its HTTP request to the
\* base URL of the region it resolved, using that same region's credentials,
\* in every interleaving of concurrent calls for different regions on one
\* client instance.
C24_RequestUsesOwnRegion ==
    \A t \in DOMAIN th :
        (th[t].pc = "done" /\ Len(th[t].sent) = 1) =>
            LET resolved == ResolveConfig(world.config, th[t].region) IN
            /\ th[t].sent[1].url = resolved.base_url \o "/api/console/proxy"
            /\ th[t].sent[1].auth = <<resolved.username, resolved.password>>

----------------------------------------------------------------------------
\* Vocabulary of the listing properties

\* the positions of the requests sent for organisation org
RequestsOf(org) ==
    { i \in 1..Len(world.requests) : world.requests[i].org = org }

QueriedOrgs == { world.requests[i].org : i \in 1..Len(world.requests) }

InitialEndpoint ==
    IF world.filter = "" THEN MemberEndpoint
    ELSE [url |-> "/repositories/" \o world.filter, page |-> 0]

\* C25: in list_repositories and list_all_orgs, for every organisation
\* queried, the first request goes to the initial endpoint with pagelen=100,
\* later requests follow only that organisation's own next links, and the
\* loop ends for the organisation at the first page without a next link.
C25_EachOrgStartsAtInitialEndpoint ==
    world.op \in {"list_all_orgs", "list_repositories"} =>
        \A org \in QueriedOrgs :
            \A i \in RequestsOf(org) :
                /\ (i - 1 \notin RequestsOf(org)) =>
                      /\ world.requests[i].endpoint = InitialEndpoint
                      /\ world.requests[i].params = PageLen
                /\ (i + 1 \in RequestsOf(org)) =>
                      /\ world.requests[i].next # NoNext
                      /\ world.requests[i + 1].endpoint = world.requests[i].next
                /\ (i + 1 \notin RequestsOf(org)) =>
                      world.requests[i].next = NoNext

----------------------------------------------------------------------------
\* Vocabulary of the token manager's properties

\* a make_request call has been made and has ended
TmCalled == world.sent # <<>> \/ world.raised # NoException

\* the bodies that contain 'token' in some case
BodiesWithToken == {<<"Token", "expired">>, <<"invalid", "token">>}

FirstRejected ==
    /\ Len(world.responses) >= 1
    /\ world.responses[1].status \in {401, 403}
    /\ world.responses[1].body \in BodiesWithToken

\* refresh_token was called after the first response and the request re-sent
RefreshedAndResent == world.retried /\ Len(world.sent) = 2

\* the re-sent request carries the Authorization of the token self.headers
\* holds after the refresh, and went to the same url
ResentWithRefreshedToken ==
    Len(world.sent) = 2 =>
        /\ world.sent[2].headers.Authorization = Bearer(world.token)
        /\ world.sent[2].headers.Authorization # world.sent[1].headers.Authorization
        /\ world.sent[2].url = world.sent[1].url

\* the second response is what the call returns, whatever its status
SecondResponseReturned ==
    (Len(world.responses) = 2 /\ world.raised = NoException) =>
        world.returned = world.responses[2]

\* C26 (as claimed): make_request sends at most two HTTP requests per call;
\* it calls refresh_token and re-sends exactly once if and only if the first
\* response has status 401 or 403 and its body contains 'token'; the re-sent
\* request carries the refreshed token's Authorization header and the second
\* response is returned whatever its status.
C26_ResendsIffTokenRejected ==
    TmCalled =>
        /\ Len(world.sent) <= 2
        /\ RefreshedAndResent <=> FirstRejected
        /\ ResentWithRefreshedToken
        /\ SecondResponseReturned

\* C26 (amended): as claimed, except that the re-send also needs refresh_token
\* to return: when the first response rejects the token, refresh_token is
\* called exactly once more, and the request is re-sent exactly once iff that
\* refresh does not raise; when it raises, RuntimeError leaves make_request
\* after the one request.
C26_ResendsIffTokenRejectedAndRefreshed ==
    TmCalled =>
        /\ Len(world.sent) <= 2
        /\ world.retried <=> FirstRejected
        /\ RefreshedAndResent <=>
              (FirstRejected /\ world.raised.cls # "RuntimeError")
        /\ (FirstRejected /\ world.raised.cls = "RuntimeError") =>
              (Len(world.sent) = 1 /\ world.returned = NoResponse)
        /\ ResentWithRefreshedToken
        /\ SecondResponseReturned

\* a first response 403 'Token expired', a refresh, and a second response that
\* rejects the token again and is returned as it is
C26_Witness ==
    /\ Len(world.sent) = 2
    /\ world.responses[1] = [status |-> 403, body |-> <<"Token", "expired">>]
    /\ world.responses[2] = [status |-> 401, body |-> <<"invalid", "token">>]
    /\ world.returned = world.responses[2]
    /\ world.sent[1].headers.Authorization = Bearer(1)
    /\ world.sent[2].headers.Authorization = Bearer(2)
    /\ world.raised = NoException

----------------------------------------------------------------------------
\* C27: a search response returned by get_logs or fetch_logs_by_kql never
\* carries more than max_allowed_hits hits: the _search request is sent only
\* after the _count request, and is not sent when the count is 0 or when both
\* the count and the requested size exceed max_allowed_hits, also when
\* matching logs are added between the count request and the search request.
C27_HitsWithinAllowed ==
    /\ (world.call.pc = "done" /\ world.call.hits >= 0) =>
          world.call.hits <= world.max_allowed_hits
    /\ (\E i \in 1..Len(world.call.sent) : world.call.sent[i] = "_search") =>
          /\ world.call.sent = <<"_count", "_search">>
          /\ world.call.log_count # 0
          /\ ~(world.call.log_count > world.max_allowed_hits
                 /\ world.call.size > world.max_allowed_hits)

----------------------------------------------------------------------------
\* C28: _fetch_field_details (and get_available_fields built on it) is
\* memoised per client and arguments: once a call has returned, every later
\* call with the same arguments sends no HTTP request and returns the same
\* value, including the empty result returned when the first request failed,
\* which is therefore never retried.
C28_LaterCallsServedFromCache ==
    world.last.before =>
        /\ world.last.sent = 0
        /\ world.last.value =
             world.first[<<world.last.op, world.last.self, world.last.region>>]

\* a first call failed and returned the empty result; the fields API has
\* answers now, and the same call is made again and gets the empty result
\* without a request
C28_Witness ==
    /\ world.last.op = "_fetch_field_details"
    /\ world.last.before
    /\ world.last.value = <<>>
    /\ world.last.sent = 0
    /\ <<world.last.self, "logs-*", world.last.region>> \in DOMAIN world.details

====
